---- MODULE Spec2Model ----
(***************************************************************************)
(* A model of src/satlas2_gui.py: the Satlas2GUI window with its two       *)
(* handlers, load_file and fit_spectrum.                                   *)
(*                                                                         *)
(* fit_spectrum is one synchronous handler; it is modelled as a chain of   *)
(* steps (one per try block or straight-line section of the source), the   *)
(* variable pc holding the handler's position.  No other handler runs      *)
(* while pc # "idle" (Qt delivers one event at a time).                    *)
(*                                                                         *)
(* Text is a sequence of one-character strings.  Numbers read from text    *)
(* are integers; derived real quantities (beta, the Doppler factor, the    *)
(* uncertainties) are fixed-point integers in units of 1/Scale, rounded    *)
(* down.  A float value is a record [k, v] with k one of "num", "nan",     *)
(* "inf".  Energies are in units where c = 1 and e * 1000 = 1: the ratio   *)
(* in get_beta is unchanged by that choice of units.                       *)
(***************************************************************************)
EXTENDS Integers, Sequences, FiniteSets, TLC

VARIABLES
    file_path,     \* self.file_path: NoPath (None) or a path
    file_label,    \* self.file_label's text
    result_text,   \* self.result_text's plain text
    ax,            \* self.ax: the axes' contents
    canvas,        \* what canvas.draw() last rendered
    pc,            \* position inside fit_spectrum, "idle" outside it
    param_input,   \* self.param_input's text as the invocation read it
    namespace,     \* the names the parameter block bound
    fields,        \* the four line edits' texts as the invocation read them
    inputs,        \* freq_offset, m_u, m_ion, appl_V, mode
    lines,         \* f.readlines(): the raw lines of the data file
    data,          \* AOut, y, Freq
    beta,          \* get_beta(AOut)
    Freq_adj,      \* the corrected frequencies
    source,        \* the satlas2.Source handed to the Fitter
    sigma,         \* argument and result of the engine's call of yerr
    msg,           \* the message box the invocation showed
    outcome,       \* how the invocation ended
    done,          \* the stages the invocation completed, in order
    lastOk         \* result_text and ax as the last successful invocation left them

\* the window's state, which outlives an invocation
gui == <<file_path, file_label, result_text, ax, canvas>>

\* the locals of the current (or, when idle, the last) invocation of fit_spectrum
locals == <<param_input, namespace, fields, inputs, lines, data, beta, Freq_adj,
            source, sigma>>

vars == <<gui, pc, locals, msg, outcome, done, lastOk>>

----------------------------------------------------------------------------
(* Bounds of the model *)

\* the longest data file, in lines, that the pure record-parser check reads
MaxLines == 6
\* the longest count array the uncertainty function is applied to
MaxCounts == 3

(* Fixed-point resolution: a real r is held as the integer floor(r * Scale) *)
Scale == 100

----------------------------------------------------------------------------
(* Text and float() *)

Digits == {"0", "1", "2", "3", "4", "5", "6", "7", "8", "9"}

DigitVal(c) ==
    CASE c = "0" -> 0 [] c = "1" -> 1 [] c = "2" -> 2 [] c = "3" -> 3
      [] c = "4" -> 4 [] c = "5" -> 5 [] c = "6" -> 6 [] c = "7" -> 7
      [] c = "8" -> 8 [] c = "9" -> 9

RECURSIVE DigitsVal(_)
DigitsVal(t) ==
    IF t = <<>> THEN 0
    ELSE 10 * DigitsVal(SubSeq(t, 1, Len(t) - 1)) + DigitVal(t[Len(t)])

\* the digits of t once a leading "-" is removed
Unsigned(t) == IF t # <<>> /\ Head(t) = "-" THEN Tail(t) ELSE t

\* float(t) succeeds: of the texts made of digits, "-" and letters, Python
\* accepts those that are an optional sign followed by at least one digit
IsFloat(t) ==
    /\ Unsigned(t) # <<>>
    /\ \A i \in 1..Len(Unsigned(t)) : Unsigned(t)[i] \in Digits

\* float(t), for a text float() accepts
FloatOf(t) ==
    IF Head(t) = "-" THEN 0 - DigitsVal(Unsigned(t)) ELSE DigitsVal(t)

RECURSIVE SplitFrom(_, _)
\* str.split(): cur is the token being read, rest the text still unread
SplitFrom(cur, rest) ==
    IF rest = <<>> THEN (IF cur = <<>> THEN <<>> ELSE <<cur>>)
    ELSE IF Head(rest) = " "
         THEN (IF cur = <<>> THEN <<>> ELSE <<cur>>) \o SplitFrom(<<>>, Tail(rest))
         ELSE SplitFrom(Append(cur, Head(rest)), Tail(rest))

\* line.strip().split(): the whitespace-separated tokens of a line
Split(line) == SplitFrom(<<>>, line)

----------------------------------------------------------------------------
(* The record parser, lines 171-175 *)

\* the fewest tokens of a usable row
MinTokens == 7

\* lines[3:]
SkipHeader(ls) == IF Len(ls) <= 3 THEN <<>> ELSE SubSeq(ls, 4, Len(ls))

\* a variant that takes a row of 6 tokens, enough to index token 5
KeepsRowOfSix(line) == Len(Split(line)) >= MinTokens - 1

KeepsRow(line) == Len(Split(line)) >= MinTokens

\* data = [line.strip().split() for line in lines if len(...) >= 7]
Rows(ls) ==
    LET rest == SkipHeader(ls)
        kept == SelectSeq(rest, KeepsRow)
    IN  [i \in 1..Len(kept) |-> Split(kept[i])]

\* the three list comprehensions raise ValueError at the first token that
\* float() rejects
Coerces(rows) ==
    \A i \in 1..Len(rows) :
        IsFloat(rows[i][1]) /\ IsFloat(rows[i][4]) /\ IsFloat(rows[i][6])

Column(rows, j) == [i \in 1..Len(rows) |-> FloatOf(rows[i][j])]

NoData == [AOut |-> <<>>, y |-> <<>>, Freq |-> <<>>]

ParseRecords(ls) ==
    LET rows == Rows(ls)
    IN  [AOut |-> Column(rows, 1), y |-> Column(rows, 4), Freq |-> Column(rows, 6)]

----------------------------------------------------------------------------
(* Float values *)

Num(v) == [k |-> "num", v |-> v]
NaN == [k |-> "nan", v |-> 0]
\* +inf (v = 1) or -inf (v = -1)
Inf(sgn) == [k |-> "inf", v |-> sgn]

RECURSIVE ISqrtIn(_, _, _)
\* the largest r in lo..hi with r * r <= n (mid <= n \div mid says mid * mid <= n
\* without leaving the 32-bit integers)
ISqrtIn(n, lo, hi) ==
    IF lo >= hi THEN lo
    ELSE LET mid == (lo + hi + 1) \div 2
         IN  IF mid <= n \div mid THEN ISqrtIn(n, mid, hi) ELSE ISqrtIn(n, lo, mid - 1)

\* floor(sqrt(n)) for n >= 0
ISqrt(n) == ISqrtIn(n, 0, n)

\* np.sqrt(q) of a ratio n / d of integers with d > 0, in fixed point
SqrtRatio(n, d) ==
    IF n < 0 THEN NaN ELSE Num(ISqrt((Scale * Scale * n) \div d))

----------------------------------------------------------------------------
(* The relativistic correction, lines 183-199 *)

\* the numerator m_u**2 * m_ion**2 * c**4
RestSq(m_u, m_ion) == m_u * m_u * m_ion * m_ion

\* the denominator (e * 1000. * (appl_V - AOut) + m_u * m_ion * c**2)**2
TotalSq(m_u, m_ion, appl_V, a) ==
    ((appl_V - a) + m_u * m_ion) * ((appl_V - a) + m_u * m_ion)

\* the sign of 1 - RestSq / TotalSq is that of TotalSq - RestSq when TotalSq > 0
RadicandNegative(m_u, m_ion, appl_V, a) ==
    /\ TotalSq(m_u, m_ion, appl_V, a) > 0
    /\ TotalSq(m_u, m_ion, appl_V, a) < RestSq(m_u, m_ion)

\* get_beta for one record.  numpy divides by zero without raising: x / 0 is
\* inf (nan for 0 / 0), 1 - inf is -inf, and sqrt of a negative number is nan
get_beta1(m_u, m_ion, appl_V, a) ==
    LET n == RestSq(m_u, m_ion)
        d == TotalSq(m_u, m_ion, appl_V, a)
    IN  IF d = 0 THEN NaN ELSE SqrtRatio(d - n, d)

get_beta(m_u, m_ion, appl_V, AOut) ==
    [i \in 1..Len(AOut) |-> get_beta1(m_u, m_ion, appl_V, AOut[i])]

\* f * r for a float r and an integer f
Times(f, r) ==
    CASE r.k = "nan" -> NaN
      [] r.k = "inf" -> IF f = 0 THEN NaN ELSE Inf(IF f > 0 THEN r.v ELSE 0 - r.v)
      [] OTHER -> Num(f * r.v)

\* Freq * np.sqrt((1 - beta) / (1 + beta))
DopplerCo(f, b) ==
    IF b.k # "num" THEN NaN
    ELSE Times(f, SqrtRatio(Scale - b.v, Scale + b.v))

\* Freq * np.sqrt((1 + beta) / (1 - beta)); beta = 1 divides by zero
DopplerAnti(f, b) ==
    IF b.k # "num" THEN NaN
    ELSE IF b.v = Scale THEN Times(f, Inf(1))
    ELSE Times(f, SqrtRatio(Scale + b.v, Scale - b.v))

\* a value that is, or is not, Python's None
None == [none |-> TRUE, val |-> <<>>]
Some(v) == [none |-> FALSE, val |-> v]

\* doppler_shift has no else branch: any other mode falls off the end of the
\* function, which returns None
doppler_shift(Freq, b, mode) ==
    IF mode = "co"
    THEN Some([i \in 1..Len(Freq) |-> DopplerCo(Freq[i], b[i])])
    ELSE IF mode = "anti"
    THEN Some([i \in 1..Len(Freq) |-> DopplerAnti(Freq[i], b[i])])
    ELSE None

\* the unit factor of line 199
MHz == 1000000

\* Freq_adj * 1e6 - freq_offset, for one value (fixed point in, fixed point out)
Rescale1(r, freq_offset) ==
    IF r.k = "num" THEN Num(r.v * MHz - freq_offset * Scale) ELSE r

Rescale(arr, freq_offset) == [i \in 1..Len(arr) |-> Rescale1(arr[i], freq_offset)]

----------------------------------------------------------------------------
(* The uncertainty function, lines 192-195 *)

\* np.sqrt of one value of the array
Sqrt1(v) == IF v < 0 THEN NaN ELSE Num(ISqrt(v * Scale * Scale))

\* a variant without the second statement: the plain square root
PlainSqrt(input) == [i \in 1..Len(input) |-> Sqrt1(input[i])]

\* output = np.sqrt(input); output[input <= 0] = 1
modifiedSqrt(input) ==
    [i \in 1..Len(input) |-> IF input[i] <= 0 THEN Num(Scale) ELSE Sqrt1(input[i])]

----------------------------------------------------------------------------
(* The window's values *)

\* self.file_path = None
NoPath == <<>>

\* the paths the file dialog can return, as sequences of components
Paths == {<<"data", "run1.txt">>, <<"tmp", "scan2.txt">>}

\* os.path.basename
basename(path) == path[Len(path)]

NoFileText == "No file selected"

\* the QComboBox's items
Modes == {"co", "anti"}

EmptyAx == [plots |-> <<>>, title |-> <<>>, xlabel |-> "", ylabel |-> "", legend |-> FALSE]

\* the number of points of the sampled fit curve
Samples == 1000

NoMsg == [box |-> "none", title |-> "", text |-> ""]
NoSource == [built |-> FALSE]
NoSigma == [called |-> FALSE]
NoInputs == [read |-> FALSE]
NoFields == [freq_offset |-> <<>>, m_u |-> <<>>, m_ion |-> <<>>, appl_V |-> <<>>]

----------------------------------------------------------------------------
(* The parameter block, lines 149-154 *)

\* a variant that never looks up scale
LookupsWithoutScale ==
    <<"spin", "J", "A", "B", "C", "FWHMG", "FWHML", "centroid", "bkg">>

\* the names fit_spectrum looks up in the namespace, in the order of the source
Lookups == <<"spin", "J", "A", "B", "C", "FWHMG", "FWHML", "centroid", "bkg", "scale">>

\* A block is a sequence of statements: the name an assignment binds, or
\* "!" for a statement that raises (a syntax error, an undefined name, ...).
Raises == "!"

RECURSIVE Exec(_, _)
\* exec(text, {}, namespace): the statements run in order until one raises
Exec(block, ns) ==
    IF block = <<>> THEN [raised |-> FALSE, names |-> ns]
    ELSE IF Head(block) = Raises THEN [raised |-> TRUE, names |-> ns]
    ELSE Exec(Tail(block), ns \cup {Head(block)})

\* namespace[name] for every looked-up name: KeyError at the first one missing
LookupsFound(ns) == \A i \in 1..Len(Lookups) : Lookups[i] \in ns

\* a variant that swallows the exception exec raised
ParamsParseLenient(block) == LookupsFound(Exec(block, {}).names)

\* the try block of lines 148-154 ends without an exception
ParamsParse(block) ==
    /\ ~Exec(block, {}).raised
    /\ LookupsFound(Exec(block, {}).names)

DefaultBlock ==
    <<"spin", "J", "A", "B", "C", "FWHMG", "FWHML", "centroid", "bkg", "scale">>

\* the block with its i-th statement deleted
Without(block, i) == SubSeq(block, 1, i - 1) \o SubSeq(block, i + 1, Len(block))

\* the texts the user may have typed into param_input
ParamBlocks ==
    {DefaultBlock, <<>>, <<"spin", "J", Raises>>, Append(DefaultBlock, Raises),
     Append(DefaultBlock, "extra")}
      \cup {Without(DefaultBlock, i) : i \in 1..Len(DefaultBlock)}

----------------------------------------------------------------------------
(* The line edits, lines 160-164 *)

\* the texts the user may have typed into a line edit
FieldTexts == {<<"2">>, <<"x">>, <<"-">>, <<"2", "-">>, <<>>}

\* the line edits' default texts, rescaled to the model's units
GoodFields == [freq_offset |-> <<"2">>, m_u |-> <<"2">>, m_ion |-> <<"2">>, appl_V |-> <<"2">>]

\* what the user may have typed: the defaults, or one field changed
FieldInputs ==
    {GoodFields}
      \cup {[GoodFields EXCEPT !.freq_offset = t] : t \in FieldTexts}
      \cup {[GoodFields EXCEPT !.m_u = t] : t \in FieldTexts}
      \cup {[GoodFields EXCEPT !.m_ion = t] : t \in FieldTexts}
      \cup {[GoodFields EXCEPT !.appl_V = t] : t \in FieldTexts}

\* the four float() calls all return
FieldsParse(f) ==
    IsFloat(f.freq_offset) /\ IsFloat(f.m_u) /\ IsFloat(f.m_ion) /\ IsFloat(f.appl_V)

ReadInputs(f, mode) ==
    [read |-> TRUE, freq_offset |-> FloatOf(f.freq_offset), m_u |-> FloatOf(f.m_u),
     m_ion |-> FloatOf(f.m_ion), appl_V |-> FloatOf(f.appl_V), mode |-> mode]

----------------------------------------------------------------------------
(* Data files *)

RECURSIVE Join(_)
\* the line whose tokens are toks, separated by single spaces
Join(toks) ==
    IF toks = <<>> THEN <<>>
    ELSE IF Len(toks) = 1 THEN toks[1]
    ELSE toks[1] \o <<" ">> \o Join(Tail(toks))

\* a well-formed row of 7 tokens: retardation offset a, counts y, frequency f
Row(a, y, f) == Join(<<a, <<"0">>, <<"0">>, y, <<"0">>, f, <<"0">>>>)

\* a row of 6 tokens
ShortRow == Join(<<<<"5">>, <<"0">>, <<"0">>, <<"5">>, <<"0">>, <<"5">>>>)

\* a row of 7 tokens whose counts are not a number
BadRow == Row(<<"1">>, <<"x">>, <<"2">>)

\* a row of 8 tokens, padded with blanks, numeric only where it is read
WideRow ==
    <<" ">> \o Join(<<<<"1">>, <<"x">>, <<>>, <<"0">>, <<"1", "6">>, <<"y">>, <<"2">>,
                      <<"0">>, <<"0">>>>) \o <<" ">>

\* two metadata lines and the header line; the first has the shape of a row
Header == <<Row(<<"9">>, <<"9">>, <<"9">>), <<"r", "u", "n">>, Join(<<<<"V">>, <<"N">>>>)>>

\* what open() and readlines() can find at self.file_path
Unreadable == [exists |-> FALSE, lines |-> <<>>]
File(ls) == [exists |-> TRUE, lines |-> ls]

Disk ==
    {Unreadable,
     File(<<>>),
     File(Header),
     File(Header \o <<Row(<<"0">>, <<"4">>, <<"1">>), Row(<<"1">>, <<"9">>, <<"2">>)>>),
     File(Header \o <<Row(<<"0">>, <<"4">>, <<"1">>), ShortRow, WideRow,
                      Row(<<"1">>, <<"0">>, <<"2">>), <<>>, Row(<<"0">>, <<"9">>, <<"2">>)>>),
     File(Header \o <<Row(<<"0">>, <<"4">>, <<"1">>), BadRow,
                      Row(<<"1">>, <<"9">>, <<"2">>)>>),
     File(Header \o <<Row(<<"0">>, <<"4">>, <<"1">>), Row(<<"1">>, <<"9">>, <<"2">>),
                      Row(<<"3">>, <<"1">>, <<"1">>), Row(<<"1">>, <<"1">>, <<"2">>)>>)}

----------------------------------------------------------------------------
(* The initial state: __init__ and initUI, lines 30-131 *)

Init ==
    /\ file_path = NoPath
    /\ file_label = NoFileText
    /\ result_text = ""
    /\ ax = EmptyAx
    /\ canvas = EmptyAx
    /\ pc = "idle"
    /\ param_input = <<>>
    /\ namespace = {}
    /\ fields = NoFields
    /\ inputs = NoInputs
    /\ lines = <<>>
    /\ data = NoData
    /\ beta = <<>>
    /\ Freq_adj = <<>>
    /\ source = NoSource
    /\ sigma = NoSigma
    /\ msg = NoMsg
    /\ outcome = [kind |-> "none", stage |-> ""]
    /\ done = <<>>
    /\ lastOk = [text |-> "", ax |-> EmptyAx]

----------------------------------------------------------------------------
(* load_file, lines 135-141 *)

\* QFileDialog.getOpenFileName returns a path, or "" when the user cancels
load_file ==
    /\ pc = "idle"
    /\ \E path \in Paths \cup {<<>>} :
          IF path # <<>>
          THEN /\ file_path' = path
               /\ file_label' = basename(path)
          ELSE /\ file_label' = NoFileText
               /\ UNCHANGED file_path
    /\ UNCHANGED <<result_text, ax, canvas, pc, locals, msg, outcome, done, lastOk>>

----------------------------------------------------------------------------
(* fit_spectrum, lines 143-232 *)

\* a message box is shown and the handler returns
ShowAndReturn(stage, box, title, text) ==
    /\ msg' = [box |-> box, title |-> title, text |-> text]
    /\ outcome' = [kind |-> "message", stage |-> stage]
    /\ pc' = "idle"

\* an exception leaves the handler: PyQt5 prints the traceback and, from
\* version 5.5 on, aborts the application unless an excepthook is installed
Escapes(stage) ==
    /\ outcome' = [kind |-> "unhandled", stage |-> stage]
    /\ pc' \in {"idle", "aborted"}
    /\ UNCHANGED msg

\* lines 144-146: the click starts the handler
FitCheckFile ==
    /\ pc = "idle"
    /\ param_input' = <<>>
    /\ namespace' = {}
    /\ fields' = NoFields
    /\ inputs' = NoInputs
    /\ lines' = <<>>
    /\ data' = NoData
    /\ beta' = <<>>
    /\ Freq_adj' = <<>>
    /\ source' = NoSource
    /\ sigma' = NoSigma
    /\ IF file_path = NoPath
       THEN /\ ShowAndReturn("file", "warning", "Warning", "No file loaded.")
            /\ done' = <<>>
       ELSE /\ pc' = "params"
            /\ msg' = NoMsg
            /\ outcome' = [kind |-> "running", stage |-> ""]
            /\ done' = <<"file">>
    /\ UNCHANGED <<gui, lastOk>>

\* lines 148-157
FitParseParams ==
    /\ pc = "params"
    /\ \E block \in ParamBlocks :
          /\ param_input' = block
          /\ IF ParamsParse(block)
             THEN /\ namespace' = Exec(block, {}).names
                  /\ pc' = "inputs"
                  /\ done' = Append(done, "params")
                  /\ UNCHANGED <<msg, outcome>>
             ELSE /\ ShowAndReturn("params", "critical", "Error", "Parameter parsing error")
                  /\ UNCHANGED <<namespace, done>>
    /\ UNCHANGED <<gui, fields, inputs, lines, data, beta, Freq_adj, source, sigma, lastOk>>

\* lines 159-167
FitReadInputs ==
    /\ pc = "inputs"
    /\ \E f \in FieldInputs, mode \in Modes :
          /\ fields' = f
          /\ IF FieldsParse(f)
             THEN /\ inputs' = ReadInputs(f, mode)
                  /\ pc' = "load"
                  /\ done' = Append(done, "inputs")
                  /\ UNCHANGED <<msg, outcome>>
             ELSE /\ ShowAndReturn("inputs", "critical", "Input Error",
                                   "Invalid numerical input")
                  /\ UNCHANGED <<inputs, done>>
    /\ UNCHANGED <<gui, param_input, namespace, lines, data, beta, Freq_adj, source,
                   sigma, lastOk>>

\* lines 169-178, reading the file content
LoadFrom(content) ==
    /\ pc = "load"
    /\ lines' = content.lines
    /\ IF content.exists /\ Coerces(Rows(content.lines))
       THEN /\ data' = ParseRecords(content.lines)
            /\ pc' = "correct"
            /\ done' = Append(done, "load")
            /\ UNCHANGED <<msg, outcome>>
       ELSE /\ ShowAndReturn("load", "critical", "Error", "File loading failed")
            /\ UNCHANGED <<data, done>>
    /\ UNCHANGED <<gui, param_input, namespace, fields, inputs, beta, Freq_adj, source,
                   sigma, lastOk>>

FitLoadData == pc = "load" /\ \E content \in Disk : LoadFrom(content)

\* lines 180-199: beta, the Doppler shift and the rescaling; None * 1e6 raises
\* TypeError outside every try block
FitCorrect ==
    /\ pc = "correct"
    /\ beta' = get_beta(inputs.m_u, inputs.m_ion, inputs.appl_V, data.AOut)
    /\ LET shifted == doppler_shift(data.Freq, beta', inputs.mode)
       IN  IF shifted.none
           THEN /\ Escapes("correct")
                /\ UNCHANGED <<Freq_adj, done>>
           ELSE /\ Freq_adj' = Rescale(shifted.val, inputs.freq_offset)
                /\ pc' = "build"
                /\ done' = Append(done, "correct")
                /\ UNCHANGED <<msg, outcome>>
    /\ UNCHANGED <<gui, param_input, namespace, fields, inputs, lines, data, source,
                   sigma, lastOk>>

\* lines 207-214: satlas2's constructors are external; each returns or raises
\* (HFS, for one, on a J it cannot index), outside every try block
FitBuild ==
    /\ pc = "build"
    /\ \/ /\ source' = [built |-> TRUE, x |-> Freq_adj, y |-> data.y,
                        yerr |-> "modifiedSqrt", name |-> "fitdata",
                        models |-> <<"HFS_fitdata", "bkg_fitdata">>]
          /\ pc' = "fit"
          /\ done' = Append(done, "build")
          /\ UNCHANGED <<msg, outcome>>
       \/ /\ Escapes("build")
          /\ UNCHANGED <<source, done>>
    /\ UNCHANGED <<gui, param_input, namespace, fields, inputs, lines, data, beta,
                   Freq_adj, sigma, lastOk>>

\* the except clause of lines 231-232
FitError(stage) == ShowAndReturn(stage, "critical", "Fit Error", "Fitting failed")

\* the values the engine may hand to yerr while it fits
Evaluations == {<<4, 0>>, <<1, -3, 9>>}

\* line 217: f.fit() returns, having applied yerr to its model's values, or raises
RunFit(arg) ==
    /\ pc = "fit"
    /\ \/ /\ sigma' = [called |-> TRUE, arg |-> arg, res |-> modifiedSqrt(arg)]
          /\ pc' = "report"
          /\ done' = Append(done, "fit")
          /\ UNCHANGED <<msg, outcome>>
       \/ /\ FitError("fit")
          /\ UNCHANGED <<sigma, done>>
    /\ UNCHANGED <<gui, param_input, namespace, fields, inputs, lines, data, beta,
                   Freq_adj, source, lastOk>>

FitRun == pc = "fit" /\ \E arg \in Evaluations : RunFit(arg)

\* the texts f.reportFit() may return
Reports == {"report A", "report B"}

\* lines 218-219: reportFit returns and the text is set, or it raises
FitReport ==
    /\ pc = "report"
    /\ \/ /\ \E rep \in Reports : result_text' = rep
          /\ pc' = "plot"
          /\ done' = Append(done, "report")
          /\ UNCHANGED <<msg, outcome>>
       \/ /\ FitError("report")
          /\ UNCHANGED <<result_text, done>>
    /\ UNCHANGED <<file_path, file_label, ax, canvas, locals, lastOk>>

\* lines 221-222: the axes are cleared and the data drawn
FitPlotData ==
    /\ pc = "plot"
    /\ ax' = [EmptyAx EXCEPT !.plots =
                 <<[label |-> "Data", x |-> source.x, y |-> source.y,
                    drawstyle |-> "steps-mid"]>>]
    /\ pc' = "curve"
    /\ UNCHANGED <<file_path, file_label, result_text, canvas, locals, msg, outcome,
                   done, lastOk>>

IsNaN(a) == a.k = "nan"

\* a <= b for floats that are not nan
LessEq(a, b) ==
    \/ a.k = "inf" /\ a.v = -1
    \/ b.k = "inf" /\ b.v = 1
    \/ a.k = "num" /\ b.k = "num" /\ a.v <= b.v

Elems(arr) == {arr[i] : i \in 1..Len(arr)}

\* ndarray.min() and .max() of a non-empty array: nan as soon as one value is nan
ArrMin(arr) ==
    IF \E a \in Elems(arr) : IsNaN(a) THEN NaN
    ELSE CHOOSE a \in Elems(arr) : \A b \in Elems(arr) : LessEq(a, b)

ArrMax(arr) ==
    IF \E a \in Elems(arr) : IsNaN(a) THEN NaN
    ELSE CHOOSE a \in Elems(arr) : \A b \in Elems(arr) : LessEq(b, a)

\* lines 223-224: min() of an empty array raises ValueError; source.evaluate is
\* external, and returns or raises
FitPlotCurve ==
    /\ pc = "curve"
    /\ \/ /\ source.x # <<>>
          /\ ax' = [ax EXCEPT !.plots =
                       Append(@, [label |-> "Fit",
                                  x |-> <<ArrMin(source.x), ArrMax(source.x)>>,
                                  n |-> Samples])]
          /\ pc' = "finish"
          /\ UNCHANGED <<msg, outcome>>
       \/ /\ FitError("plot")
          /\ UNCHANGED ax
    /\ UNCHANGED <<file_path, file_label, result_text, canvas, locals, done, lastOk>>

\* lines 225-229: title, labels, legend, and the canvas is drawn
FitFinish ==
    /\ pc = "finish"
    /\ ax' = [ax EXCEPT !.title = <<"Fit: ", basename(file_path), " (", inputs.mode, ")">>,
                        !.xlabel = "Frequency [MHz]",
                        !.ylabel = "Counts",
                        !.legend = TRUE]
    /\ canvas' = ax'
    /\ pc' = "idle"
    /\ done' = Append(done, "plot")
    /\ outcome' = [kind |-> "success", stage |-> ""]
    /\ lastOk' = [text |-> result_text, ax |-> ax']
    /\ UNCHANGED <<file_path, file_label, result_text, locals, msg>>

----------------------------------------------------------------------------
(* The window: one handler at a time *)

Next ==
    \/ load_file
    \/ FitCheckFile
    \/ FitParseParams
    \/ FitReadInputs
    \/ FitLoadData
    \/ FitCorrect
    \/ FitBuild
    \/ FitRun
    \/ FitReport
    \/ FitPlotData
    \/ FitPlotCurve
    \/ FitFinish

Spec == Init /\ [][Next]_vars

----------------------------------------------------------------------------
(* The record parser alone: fit_spectrum stands at line 169, about to read *)
(* any file of at most MaxLines lines                                      *)

\* a well-formed row with a negative retardation offset
NegRow == Row(<<"-", "3">>, <<"4">>, <<"5">>)

LinePool == {NegRow, WideRow, ShortRow, BadRow, <<>>}

AnyFile == {File(ls) : ls \in UNION {[1..n -> LinePool] : n \in 0..MaxLines}}

\* the handler has passed lines 144-167 with the default texts
AtLoad ==
    /\ file_path \in Paths
    /\ file_label = basename(file_path)
    /\ result_text = ""
    /\ ax = EmptyAx
    /\ canvas = EmptyAx
    /\ param_input = DefaultBlock
    /\ namespace = Exec(DefaultBlock, {}).names
    /\ fields = GoodFields
    /\ msg = NoMsg
    /\ outcome = [kind |-> "running", stage |-> ""]
    /\ lastOk = [text |-> "", ax |-> EmptyAx]

InitParse ==
    /\ AtLoad
    /\ pc = "load"
    /\ inputs = ReadInputs(GoodFields, "co")
    /\ lines = <<>>
    /\ data = NoData
    /\ beta = <<>>
    /\ Freq_adj = <<>>
    /\ source = NoSource
    /\ sigma = NoSigma
    /\ done = <<"file", "params", "inputs">>

LoadAnyFile == pc = "load" /\ \E content \in AnyFile : LoadFrom(content)

SpecParse == InitParse /\ [][LoadAnyFile]_vars

----------------------------------------------------------------------------
(* The correction alone: fit_spectrum stands at line 180 with any masses,  *)
(* any records and any value of the mode parameter of doppler_shift        *)

\* the values doppler_shift's mode parameter is tried with
AnyMode == Modes \cup {"side"}

Masses == {0, 1, 3}
Offsets == {0, 2, 3, 5}
Freqs == {1, 2}

Records == [AOut : Offsets, y : {4}, Freq : Freqs]

\* the arrays of at most two records
AnyData ==
    {[AOut |-> <<>>, y |-> <<>>, Freq |-> <<>>]}
      \cup {[AOut |-> <<r.AOut>>, y |-> <<r.y>>, Freq |-> <<r.Freq>>] : r \in Records}
      \cup {[AOut |-> <<r.AOut, q.AOut>>, y |-> <<r.y, q.y>>, Freq |-> <<r.Freq, q.Freq>>] :
               r \in Records, q \in Records}

InitCorrect ==
    /\ AtLoad
    /\ pc = "correct"
    /\ \E m \in Masses, mode \in AnyMode :
          inputs = [read |-> TRUE, freq_offset |-> 2, m_u |-> m, m_ion |-> 2,
                    appl_V |-> 2, mode |-> mode]
    /\ lines = <<>>
    /\ data \in AnyData
    /\ beta = <<>>
    /\ Freq_adj = <<>>
    /\ source = NoSource
    /\ sigma = NoSigma
    /\ done = <<"file", "params", "inputs", "load">>

NextCorrect ==
    \/ FitCorrect
    \/ FitBuild
    \/ FitRun
    \/ FitReport
    \/ FitPlotData
    \/ FitPlotCurve
    \/ FitFinish

SpecCorrect == InitCorrect /\ [][NextCorrect]_vars

----------------------------------------------------------------------------
(* The uncertainty function alone: fit_spectrum stands at line 217 and the *)
(* engine applies yerr to any array of at most MaxCounts values            *)

Counts == {-3, 0, 1, 2, 4, 9}

CountArrays == UNION {[1..n -> Counts] : n \in 0..MaxCounts}

InitWeight ==
    /\ AtLoad
    /\ pc = "fit"
    /\ inputs = ReadInputs(GoodFields, "co")
    /\ lines = <<>>
    /\ data = [AOut |-> <<0>>, y |-> <<4>>, Freq |-> <<1>>]
    /\ beta = get_beta(2, 2, 2, <<0>>)
    /\ Freq_adj = Rescale(doppler_shift(<<1>>, beta, "co").val, 2)
    /\ source = [built |-> TRUE, x |-> Freq_adj, y |-> <<4>>, yerr |-> "modifiedSqrt",
                 name |-> "fitdata", models |-> <<"HFS_fitdata", "bkg_fitdata">>]
    /\ sigma = NoSigma
    /\ done = <<"file", "params", "inputs", "load", "correct", "build">>

FitAnyValues == pc = "fit" /\ \E arg \in CountArrays : RunFit(arg)

SpecWeight == InitWeight /\ [][FitAnyValues]_vars

----------------------------------------------------------------------------
(* The properties *)

\* the invocation is over and did not succeed
Failed == pc \in {"idle", "aborted"} /\ outcome.kind \in {"message", "unhandled"}

\* the invocation has run the stage: completed it, or ended in it
Ran(stage) == stage \in Elems(done) \/ outcome.stage = stage

\* the ten names of the parameter block
TenNames == {"spin", "J", "A", "B", "C", "FWHMG", "FWHML", "centroid", "bkg", "scale"}

\* the block read by the invocation leaves a name unbound or fails to evaluate
BlockIncomplete ==
    \/ \E n \in TenNames : n \notin Elems(param_input)
    \/ Raises \in Elems(param_input)

\* the indices of the lines read that come after the first three and have at
\* least 7 tokens
Usable == {i \in 4..Len(lines) : Len(Split(lines[i])) >= 7}

\* tokens 0, 3 and 5 of line i are numbers
Numeric(i) ==
    /\ IsFloat(Split(lines[i])[1])
    /\ IsFloat(Split(lines[i])[4])
    /\ IsFloat(Split(lines[i])[6])

\* the position among the usable lines of usable line i
Rank(i) == Cardinality({j \in Usable : j <= i})

\* the three sequences hold exactly the usable lines, in input order
SequencesMatchUsable ==
    /\ Len(data.AOut) = Cardinality(Usable)
    /\ Len(data.y) = Cardinality(Usable)
    /\ Len(data.Freq) = Cardinality(Usable)
    /\ \A i \in Usable :
          /\ Numeric(i)
          /\ data.AOut[Rank(i)] = FloatOf(Split(lines[i])[1])
          /\ data.y[Rank(i)] = FloatOf(Split(lines[i])[4])
          /\ data.Freq[Rank(i)] = FloatOf(Split(lines[i])[6])

(* C1: an invocation of fit_spectrum that ends in failure leaves the report *)
(* text and the axes as the most recent successful invocation left them.    *)
C1_FailedFitKeepsDisplay ==
    Failed => result_text = lastOk.text /\ ax = lastOk.ax

C3_IncompleteBlockRejected ==
    (done # <<>> /\ pc # "params" /\ BlockIncomplete) =>
        /\ pc = "idle"
        /\ outcome = [kind |-> "message", stage |-> "params"]
        /\ msg = [box |-> "critical", title |-> "Error", text |-> "Parameter parsing error"]
        /\ done = <<"file">>
        /\ namespace = {}
        /\ lines = <<>>
        /\ data = NoData
        /\ source = NoSource
        /\ sigma = NoSigma

\* an invocation read the default block without its scale line, and returned
C3_MissingScaleReached ==
    /\ pc = "idle"
    /\ param_input = Without(DefaultBlock, 10)
    /\ outcome.stage = "params"

(* C4, as claimed: for every input file the parser outputs three            *)
(* equal-length sequences holding exactly the lines, after the first three, *)
(* with at least 7 tokens, in input order.                                  *)
C4_EveryFileParsed ==
    pc # "load" => SequencesMatchUsable

(* C4, amended: that holds for every file whose usable lines have numeric   *)
(* tokens 0, 3 and 5; any other file is rejected whole, with no sequences.  *)
C4_NumericFileParsed ==
    pc # "load" =>
        IF \A i \in Usable : Numeric(i)
        THEN "load" \in Elems(done) /\ SequencesMatchUsable
        ELSE /\ outcome = [kind |-> "message", stage |-> "load"]
             /\ data = NoData

\* two rows kept, in order, from a file of which another line was dropped
C4_RowsKeptAndDropped ==
    /\ "load" \in Elems(done)
    /\ Len(data.AOut) = 2
    /\ data.AOut[1] # data.AOut[2]
    /\ Len(lines) > 5

(* C5: with fewer than 4 usable rows the record parser fails and the        *)
(* invocation reaches neither the correction nor the engine.                *)
C5_FewRowsRejected ==
    (pc # "load" /\ Ran("load") /\ Cardinality(Usable) < 4) =>
        /\ outcome = [kind |-> "message", stage |-> "load"]
        /\ ~Ran("correct")
        /\ ~Ran("fit")

(* C6: f.fit() is called only after, in this order, a path is stored, the   *)
(* block evaluated and bound the ten names, the four fields parsed as       *)
(* floats and the file was read with every field of every kept row numeric; *)
(* an invocation that fails one of these builds no model and fits nothing.  *)
C6_FitOnlyAfterValidInputs ==
    /\ Ran("fit") =>
          /\ file_path # NoPath
          /\ ~BlockIncomplete
          /\ IsFloat(fields.freq_offset) /\ IsFloat(fields.m_u)
          /\ IsFloat(fields.m_ion) /\ IsFloat(fields.appl_V)
          /\ \A i \in Usable : Numeric(i)
          /\ SubSeq(done, 1, 4) = <<"file", "params", "inputs", "load">>
    /\ (outcome.kind = "message" /\ outcome.stage \in {"file", "params", "inputs", "load"}) =>
          source = NoSource /\ sigma = NoSigma /\ ~Ran("fit")

\* f.fit() was called and returned
C6_FitReached == "fit" \in Elems(done) /\ sigma.called

(* C7: a negative radicand for some record makes the correction fail and no *)
(* corrected spectrum reaches the model builder; otherwise every beta lies  *)
(* in [0, 1).                                                               *)
C7_NegativeRadicandFails ==
    (pc # "correct" /\ Ran("correct")) =>
        IF \E i \in 1..Len(data.AOut) :
              RadicandNegative(inputs.m_u, inputs.m_ion, inputs.appl_V, data.AOut[i])
        THEN /\ outcome = [kind |-> "message", stage |-> "correct"]
             /\ source = NoSource
        ELSE \A i \in 1..Len(beta) :
                beta[i].k = "num" /\ 0 <= beta[i].v /\ beta[i].v < Scale

(* C8, as claimed: the function handed to the data source maps a value      *)
(* v > 0 to 1 / sqrt(v) and a value v <= 0 to 1.                            *)
C8_InverseRootWeight ==
    sigma.called =>
        \A i \in 1..Len(sigma.arg) :
            LET v == sigma.arg[i]
                w == sigma.res[i]
            IN  /\ w.k = "num"
                /\ v > 0 => w.v * w.v * v <= Scale * Scale
                            /\ Scale * Scale < (w.v + 1) * (w.v + 1) * v
                /\ v <= 0 => w.v = Scale

(* C8, amended: the function maps a value v > 0 to sqrt(v) and a value      *)
(* v <= 0 to 1.                                                             *)
C8_RootUncertainty ==
    sigma.called =>
        /\ Len(sigma.res) = Len(sigma.arg)
        /\ \A i \in 1..Len(sigma.arg) :
              LET v == sigma.arg[i]
                  w == sigma.res[i]
              IN  /\ w.k = "num"
                  /\ v > 0 => w.v * w.v <= v * Scale * Scale
                              /\ v * Scale * Scale < (w.v + 1) * (w.v + 1)
                  /\ v <= 0 => w.v = Scale

\* the engine applied the function to 4, 0 and -3 and got 2, 1 and 1
C8_FourZeroMinusThree ==
    /\ sigma.called
    /\ sigma.arg = <<4, 0, -3>>
    /\ sigma.res = <<Num(2 * Scale), Num(Scale), Num(Scale)>>

(* C9: every invocation ends in success or in a message box for the stage   *)
(* that failed; no exception leaves the handler.                            *)
C9_EveryFailureReported ==
    (pc \in {"idle", "aborted"} /\ outcome.kind # "none") =>
        /\ pc = "idle"
        /\ outcome.kind \in {"success", "message"}
        /\ outcome.kind = "message" => msg.box # "none"

(* C10: the label reads "No file selected" exactly when no path is stored.  *)
C10_LabelMatchesPath ==
    file_label = NoFileText <=> file_path = NoPath

====
